---- MODULE Spec2Model ----
(***************************************************************************)
(* Model of typhon/datasets/filters.py: FirstlineDBFilter.filter_overlap   *)
(* and FirstlineDBFilter.update_firstline_db, the dbm index they share,    *)
(* and a second process that builds the same index; and, each on its own,  *)
(* BestLineFilter.filter_overlap and MEDMAD.filter_outliers.               *)
(*                                                                         *)
(* A granule is [ok, head, line]: ok says whether ds.read and ds._get_time *)
(* succeed on it, head is its header (get_dataname(head) is its label),    *)
(* line is the record array, one [hrs_scnlin, time] per scanline.          *)
(* A dbm file is [exists, db]: db is a function from the keys present to   *)
(* the stored strings (a string of digits is a sequence of digits).        *)
(*                                                                         *)
(* R is a FirstlineDBFilter object that reads through filter_overlap and   *)
(* builds with update_firstline_db; W is an object in another process that *)
(* builds the index at the same path.  dbm locking is modelled as far as   *)
(* the code relies on it: an open for writing is exclusive among writers   *)
(* and makes an open for reading fail with dbm.error; a handle open for    *)
(* reading keeps nobody from opening the file for writing (an open that    *)
(* the dbm library refuses raises out of the method and changes nothing).  *)
(* One object runs one method at a time.                                   *)
(*                                                                         *)
(* hist is a history variable, read by no operation except to count runs:  *)
(* copies made by R, runs started, per path the labels written by runs and *)
(* the last run completed.                                                 *)
(***************************************************************************)
EXTENDS Integers, Sequences, FiniteSets, TLC

VARIABLES
    catalogue,                \* the granules on disk, in ascending start time
    fs,                       \* path -> dbm file: "orig" (configured path), "tmp" (copy)
    lock,                     \* who holds "orig" open for writing: "free", "R", "W"
    granules_firstline_file,  \* R.granules_firstline_file: "orig" or "tmp"
    firstline_db,             \* R._firstline_db: "None", or the path of the open handle
    tmpdir,                   \* R._tmpdir: FALSE for None, TRUE once a TemporaryDirectory
    run,                      \* process -> locals of its update_firstline_db call
    ret,                      \* the last filter call and its outcome
    hist                      \* history: copies made, runs, labels written, last run

vars == <<catalogue, fs, lock, granules_firstline_file, firstline_db, tmpdir,
          run, ret, hist>>

----------------------------------------------------------------------------
(* Bounds of the model. *)

NumGranules == 3      \* Spec: granules in the catalogue
MaxRecs == 2          \* Spec: scanlines per granule
MaxScn == 2           \* Spec: largest hrs_scnlin (the smallest is 1)
MaxTime == 3          \* Spec: largest timestamp (the smallest is 1)
MaxPre == 1           \* Spec: entries in the index before the first operation
MaxRuns == 1          \* Spec, SpecRead: update_firstline_db calls in one behaviour
ReadGranules == 2     \* SpecRead: granules in the catalogue
ReadRecs == 2         \* SpecRead: scanlines per granule
ReadScn == 2          \* SpecRead: largest hrs_scnlin (the smallest is 0)
ReadTime == 3         \* SpecRead: largest timestamp
ReadPre == 1          \* SpecRead: entries in the index before the first operation
LockGranules == 3     \* SpecLock: granules in the catalogue
LockRecs == 1         \* SpecLock: scanlines per granule
LockScn == 1          \* SpecLock: largest hrs_scnlin (the smallest is 1)
LockTime == 2         \* SpecLock: largest timestamp
LockPre == 1          \* SpecLock: entries in the index before the first operation
LockRuns == 3         \* SpecLock: update_firstline_db calls in one behaviour
FilterRecs == 3       \* SpecFilter: scanlines handed to filter_overlap
FilterScn == 4        \* SpecFilter: largest hrs_scnlin (the smallest is 0)
FilterFirst == 10     \* SpecFilter: largest stored firstline
BestGranules == 3     \* SpecBest: granules in the catalogue
BestRecs == 2         \* SpecBest: scanlines handed to BestLineFilter.filter_overlap
BestTime == 2         \* SpecBest: largest timestamp
OutlierLen == 3       \* SpecOutlier: entries of the array
OutlierVal == 2       \* SpecOutlier: largest entry (the smallest is 0)
OutlierCutoff == 2    \* SpecOutlier: largest cutoff (the smallest is 0)
OrderGranules == 3    \* SpecOrder: granules in the catalogue
OrderRecs == 2        \* SpecOrder: scanlines per granule
OrderScn == 2         \* SpecOrder: largest hrs_scnlin (the smallest is 1)
OrderTime == 2        \* SpecOrder: largest timestamp (the smallest is 1)
OrderPre == 1         \* SpecOrder: entries in the index before the run
OrderRuns == 1        \* SpecOrder: update_firstline_db calls in one behaviour
WindowGranules == 4   \* SpecWindow: granules in the catalogue
WindowRecs == 1       \* SpecWindow: scanlines per granule
WindowScn == 2        \* SpecWindow: largest hrs_scnlin (the smallest is 1)
WindowTime == 2       \* SpecWindow: largest timestamp (the smallest is 1)
WindowRuns == 3       \* SpecWindow: update_firstline_db calls in one behaviour

----------------------------------------------------------------------------
(* Values. *)

None == <<>>
\* Some that forgets the value: the copies of lines 184-186 left out
Some_forgotten(x) == None
Some(x) == <<x>>
Procs == {"R", "W"}

MaxOf(S) == CHOOSE x \in S : \A y \in S : y <= x
MinOf(S) == CHOOSE x \in S : \A y \in S : x <= y
Range(s) == {s[i] : i \in DOMAIN s}

\* numpy: arr.max(), arr.min()
ArrMax(a) == MaxOf(Range(a))
ArrMin(a) == MinOf(Range(a))

\* cur_line["hrs_scnlin"]
Scnlin(line) == [i \in DOMAIN line |-> line[i].hrs_scnlin]

\* a[mask] for a boolean array mask: the elements where mask is true, in order
RECURSIVE Masked(_, _)
Masked(a, mask) ==
    IF Len(a) = 0 THEN <<>>
    ELSE (IF Head(mask) THEN <<Head(a)>> ELSE <<>>) \o Masked(Tail(a), Tail(mask))

\* arr > x, elementwise
Greater(arr, x) == [i \in DOMAIN arr |-> arr[i] > x]
GreaterEq(arr, x) == [i \in DOMAIN arr |-> arr[i] >= x]

\* str(n) for n >= 0: the decimal digits, most significant first
RECURSIVE str(_)
str(n) == IF n < 10 THEN <<n>> ELSE str(n \div 10) \o <<n % 10>>

\* int(s) of a digit string
RECURSIVE int(_)
int(s) ==
    IF Len(s) = 0 THEN 0
    ELSE 10 * int(SubSeq(s, 1, Len(s) - 1)) + s[Len(s)]

----------------------------------------------------------------------------
(* The dataset collaborator (typhon.datasets.dataset). *)

\* ds.get_dataname(header, robust=True): deterministic, one label per granule
get_dataname(header) == header

\* ds._get_time(cur_line): the time column
get_time(line) == [i \in DOMAIN line |-> line[i].time]

\* ds.find_granules_sorted(start_date, end_date): catalogue positions, ascending
find_granules_sorted(cat) == [i \in 1..Len(cat) |-> i]

----------------------------------------------------------------------------
(* The dbm store. *)

EmptyDb == [k \in {} |-> <<>>]
NoFile == [exists |-> FALSE, db |-> EmptyDb]

\* gfd[lab] = value
DbPut(db, k, v) == [x \in DOMAIN db \cup {k} |-> IF x = k THEN v ELSE db[x]]

\* dbm.open(path, "c"): create the file when it is absent
OpenCreate(f) == [exists |-> TRUE, db |-> f.db]

----------------------------------------------------------------------------
(* FirstlineDBFilter.filter_overlap (object R). *)

\* dbm.open(path, "r") succeeds: the file is there and no writer has it locked
CanOpenRead(path) ==
    /\ fs[path].exists
    /\ (path = "orig" => lock /= "W")

\* What a copy of a dbm file can hold when it is being written: each entry
\* is as the writer found it when it opened the file (a at the keys of a)
\* or as the writer has it now (b)
Mixes(a, b) ==
    UNION {{[k \in K |-> IF k \in S THEN a[k] ELSE b[k]] : S \in SUBSET DOMAIN a} :
             K \in {X \in SUBSET DOMAIN b : DOMAIN a \subseteq X}}

\* Lines 99-100: what shutil.copyfile(path, tmp_gfl) can leave in the copy.
\* The copy takes no lock, so it races with the writes of a process that has
\* the file open for writing.
CopyOutcomes(path) ==
    IF path = "orig" /\ lock = "W"
    THEN {[exists |-> TRUE, db |-> d] : d \in Mixes(run["W"].start.db, fs[path].db)}
    ELSE {fs[path]}

\* open_firstline_db that lets the dbm.error of line 89 leave the method
open_firstline_db_raise(copy) ==
    LET here == [err |-> "none", fdb |-> firstline_db,
                 gfl |-> granules_firstline_file, tmpdir |-> tmpdir,
                 fs |-> fs, copied |-> FALSE]
    IN  IF firstline_db /= "None" THEN here
        ELSE IF CanOpenRead(granules_firstline_file)
             THEN [here EXCEPT !.fdb = granules_firstline_file]
        ELSE [here EXCEPT !.err = "dbm.error"]

\* open_firstline_db that opens with "c": a file that is absent is created
open_firstline_db_create(copy) ==
    LET here == [err |-> "none", fdb |-> firstline_db,
                 gfl |-> granules_firstline_file, tmpdir |-> tmpdir,
                 fs |-> fs, copied |-> FALSE]
    IN  IF firstline_db /= "None" THEN here
        ELSE IF CanOpenRead(granules_firstline_file)
             THEN [here EXCEPT !.fdb = granules_firstline_file]
        ELSE IF fs[granules_firstline_file].exists
             THEN [here EXCEPT !.fdb = "tmp", !.gfl = "tmp", !.tmpdir = TRUE,
                               !.fs = [fs EXCEPT !["tmp"] = copy],
                               !.copied = TRUE]
        ELSE [here EXCEPT !.fdb = granules_firstline_file,
                          !.fs = [fs EXCEPT ![granules_firstline_file] = OpenCreate(@)]]

\* Lines 87-102: the fields and files once the handle is settled.  err is
\* the exception that leaves the method here, "none" when it goes on.
open_firstline_db(copy) ==
    LET here == [err |-> "none", fdb |-> firstline_db,
                 gfl |-> granules_firstline_file, tmpdir |-> tmpdir,
                 fs |-> fs, copied |-> FALSE]
    IN  IF firstline_db /= "None" THEN here
        ELSE IF CanOpenRead(granules_firstline_file)
             THEN [here EXCEPT !.fdb = granules_firstline_file]
        ELSE IF fs[granules_firstline_file].exists
             THEN [here EXCEPT !.fdb = "tmp", !.gfl = "tmp", !.tmpdir = TRUE,
                               !.fs = [fs EXCEPT !["tmp"] = copy],
                               !.copied = TRUE]
        ELSE [here EXCEPT !.err = "FileNotFoundError", !.tmpdir = TRUE]

\* handle_contents that reads the file at the configured path
handle_contents_orig(files, fdb) == files["orig"].db

\* Line 103: what the open handle self._firstline_db reads
handle_contents(files, fdb) == files[fdb].db

\* Lines 104-108: the records returned for a firstline that was found
trim_scanlines(firstline, scanlines) ==
    IF firstline > Len(scanlines)
    THEN SubSeq(scanlines, 1, 0)
    ELSE Masked(scanlines, Greater(Scnlin(scanlines), firstline))

\* lookup_and_trim with a missing key read as firstline 0
lookup_and_trim_zero(db, dataname, scanlines) ==
    IF dataname \notin DOMAIN db
    THEN [kind |-> "return", recs |-> trim_scanlines(0, scanlines)]
    ELSE [kind |-> "return", recs |-> trim_scanlines(int(db[dataname]), scanlines)]

\* Line 103-108: the outcome of the lookup in the open handle's contents
lookup_and_trim(db, dataname, scanlines) ==
    IF dataname \notin DOMAIN db
    THEN [kind |-> "KeyError", recs |-> <<>>]
    ELSE [kind |-> "return", recs |-> trim_scanlines(int(db[dataname]), scanlines)]

NoRet == [op |-> "none", head |-> 0, kind |-> "none", recs |-> <<>>,
          via |-> "None", fresh |-> FALSE]

filter_overlap(header, scanlines) ==
    /\ run["R"].pc = "idle"
    /\ \E copy \in CopyOutcomes(granules_firstline_file) :
       LET o == open_firstline_db(copy)
           dataname == get_dataname(header)
           out == IF o.err /= "none"
                  THEN [kind |-> o.err, recs |-> <<>>]
                  ELSE lookup_and_trim(handle_contents(o.fs, o.fdb), dataname, scanlines)
       IN  /\ fs' = o.fs
           /\ firstline_db' = o.fdb
           /\ granules_firstline_file' = o.gfl
           /\ tmpdir' = o.tmpdir
           /\ ret' = [op |-> "filter_overlap", head |-> header, kind |-> out.kind,
                      recs |-> out.recs, via |-> o.fdb, fresh |-> o.copied]
           /\ hist' = IF o.copied
                      THEN [hist EXCEPT !.copies = @ + 1,
                                        !.wrote["tmp"] = hist.wrote[granules_firstline_file]]
                      ELSE hist
    /\ UNCHANGED <<catalogue, lock, run>>

----------------------------------------------------------------------------
(* FirstlineDBFilter.update_firstline_db (process p). *)

IdleRun == [pc |-> "idle", overwrite |-> FALSE, gfd |-> "orig", granules |-> <<>>,
            pos |-> 0, prev_head |-> None, prev_line |-> None, prev_time |-> None,
            count_updated |-> 0, count_all |-> 0, wrote |-> {}, start |-> NoFile]
\* (start is the index as the run found it on opening, wrote the labels it
\* has written)

\* The path the process opens: R's field; W is an object that never fell back
PathOf(p) == IF p = "R" THEN granules_firstline_file ELSE "orig"

\* already_present that never skips
already_present_never(lab, gfd, overwrite) == FALSE

\* already_present without the overwrite flag
already_present_always(lab, gfd, overwrite) == lab \in DOMAIN gfd

\* Line 160: the entry is there and is not to be overwritten
already_present(lab, gfd, overwrite) == lab \in DOMAIN gfd /\ ~overwrite

\* first_line with the sentinel of the docstring, the number of lines plus 1
first_line_nlines(cur_line, cur_time, prev_time) ==
    IF ArrMax(cur_time) > ArrMax(prev_time)
    THEN ArrMin(Masked(Scnlin(cur_line), Greater(cur_time, ArrMax(prev_time))))
    ELSE Len(cur_line) + 1

\* first_line with the mask taken with >= instead of >
first_line_geq(cur_line, cur_time, prev_time) ==
    IF ArrMax(cur_time) > ArrMax(prev_time)
    THEN ArrMin(Masked(Scnlin(cur_line), GreaterEq(cur_time, ArrMax(prev_time))))
    ELSE ArrMax(Scnlin(cur_line)) + 1

\* Lines 166-181: the firstline of the current granule against the previous
first_line(cur_line, cur_time, prev_time) ==
    IF ArrMax(cur_time) > ArrMax(prev_time)
    THEN ArrMin(Masked(Scnlin(cur_line), Greater(cur_time, ArrMax(prev_time))))
    ELSE ArrMax(Scnlin(cur_line)) + 1

\* Lines 120-129 and the loop header of line 147: the locals are set, the
\* index is opened with "c", and the loop is to run over stream, the granules
\* the dataset yields
update_firstline_db_start(p, overwrite, stream) ==
    /\ run[p].pc = "idle"
    /\ PathOf(p) = "orig" => lock = "free"
    /\ fs' = [fs EXCEPT ![PathOf(p)] = OpenCreate(@)]
    /\ lock' = IF PathOf(p) = "orig" THEN p ELSE lock
    /\ run' = [run EXCEPT ![p] =
                 [IdleRun EXCEPT !.pc = "loop", !.overwrite = overwrite,
                                 !.gfd = PathOf(p),
                                 !.granules = stream,
                                 !.pos = 1, !.start = fs'[PathOf(p)]]]
    /\ ret' = IF p = "R" THEN NoRet ELSE ret
    /\ hist' = [hist EXCEPT !.runs = @ + 1]
    /\ UNCHANGED <<catalogue, granules_firstline_file, firstline_db, tmpdir>>

\* A call with the default period: the whole catalogue, in ascending order
update_firstline_db_open(p, overwrite) ==
    update_firstline_db_start(p, overwrite, find_granules_sorted(catalogue))

\* A call on a dataset whose find_granules_sorted yields the granules of the
\* catalogue in the order stream, ascending or not
update_firstline_db_unsorted(p, overwrite, stream) ==
    update_firstline_db_start(p, overwrite, stream)

\* ds.find_granules_sorted(start_date, end_date): the catalogue positions
\* first..last, the granules of a period, ascending
find_granules_window(cat, first, last) == [i \in 1..(last - first + 1) |-> first + i - 1]

\* A call with start_date and end_date given
update_firstline_db_window(p, overwrite, start_date, end_date) ==
    update_firstline_db_start(p, overwrite,
                              find_granules_window(catalogue, start_date, end_date))

\* continue_after_error that starts over without a previous granule
continue_reset(r) ==
    [r EXCEPT !.pos = @ + 1, !.prev_head = None, !.prev_line = None,
              !.prev_time = None]

\* Lines 155-158: the read raised InvalidFileError or InvalidDataError; the
\* error is logged and the loop goes on with the next granule
continue_after_error(r) == [r EXCEPT !.pos = @ + 1]

\* Lines 147-189: one pass of the loop body
update_firstline_db_granule(p) ==
    LET r == run[p]
    IN  /\ r.pc = "loop"
        /\ r.pos <= Len(r.granules)
        /\ LET gran == catalogue[r.granules[r.pos]]
               cur_head == gran.head
               cur_line == gran.line
               cur_time == get_time(cur_line)
               lab == get_dataname(cur_head)
               gfd == fs[r.gfd].db
               skip == already_present(lab, gfd, r.overwrite)
               write == ~skip /\ r.prev_line /= None
           IN  IF ~gran.ok
               THEN /\ run' = [run EXCEPT ![p] = continue_after_error(r)]
                    /\ UNCHANGED fs
               ELSE /\ fs' = IF write
                             THEN [fs EXCEPT ![r.gfd].db =
                                     DbPut(@, lab, str(first_line(cur_line, cur_time,
                                                                  r.prev_time[1])))]
                             ELSE fs
                    /\ run' = [run EXCEPT ![p] =
                                 [r EXCEPT !.pos = @ + 1,
                                           !.prev_line = Some(cur_line),
                                           !.prev_head = Some(cur_head),
                                           !.prev_time = Some(cur_time),
                                           !.count_updated = @ + (IF write THEN 1 ELSE 0),
                                           !.count_all = @ + 1,
                                           !.wrote = IF write THEN @ \cup {lab} ELSE @]]
        /\ hist' = [hist EXCEPT !.wrote[r.gfd] = @ \cup run'[p].wrote]
        /\ UNCHANGED <<catalogue, lock, granules_firstline_file, firstline_db,
                       tmpdir, ret>>

\* Lines 190-193 and the end of the with block: the counts are logged, the
\* index is closed
update_firstline_db_close(p) ==
    LET r == run[p]
    IN  /\ r.pc = "loop"
        /\ r.pos > Len(r.granules)
        /\ run' = [run EXCEPT ![p] = IdleRun]
        /\ lock' = IF r.gfd = "orig" THEN "free" ELSE lock
        /\ hist' = [hist EXCEPT !.last[r.gfd] =
                       [done |-> TRUE, overwrite |-> r.overwrite,
                        granules |-> r.granules]]
        /\ UNCHANGED <<catalogue, fs, granules_firstline_file, firstline_db, tmpdir, ret>>

\* What the index file can hold after the process was killed with the file
\* open: each entry the run wrote has reached the file or has not
Losses(r) == {[exists |-> TRUE, db |-> d] : d \in Mixes(r.start.db, fs[r.gfd].db)}

\* The process is killed inside the loop: the locals are gone, the lock is
\* released, the file is left as the writes reached it
update_firstline_db_killed(p) ==
    LET r == run[p]
    IN  /\ r.pc = "loop"
        /\ \E f \in Losses(r) : fs' = [fs EXCEPT ![r.gfd] = f]
        /\ run' = [run EXCEPT ![p] = IdleRun]
        /\ lock' = IF r.gfd = "orig" THEN "free" ELSE lock
        /\ UNCHANGED <<catalogue, granules_firstline_file, firstline_db, tmpdir,
                       ret, hist>>

----------------------------------------------------------------------------
(* BestLineFilter.filter_overlap. *)

\* scanlines["time"][idx] for idx 0 and -1: the index is out of range on an
\* empty array
time_index(scanlines, idx) ==
    IF Len(scanlines) = 0 THEN [err |-> "IndexError", time |-> 0]
    ELSE [err |-> "none",
          time |-> IF idx = 0 THEN scanlines[1].time ELSE scanlines[Len(scanlines)].time]

\* ds.read(ds.find_most_recent_granule_before(instant), ...): found is the
\* catalogue position the search gives, 0 when there is no granule before
\* the instant
read_neighbour(cat, found) ==
    IF found = 0 THEN "NoDataError"
    ELSE IF ~cat[found].ok THEN "InvalidFileError"
    ELSE "none"

\* Lines 217-229: the exception that leaves the method.  The two elements of
\* prevnext are evaluated in order; the raise of line 229 is reached when
\* both were.
best_lines(cat, scanlines, before, after) ==
    LET t0 == time_index(scanlines, 0)
        t1 == time_index(scanlines, -1)
    IN  IF t0.err /= "none" THEN t0.err
        ELSE IF read_neighbour(cat, before) /= "none" THEN read_neighbour(cat, before)
        ELSE IF t1.err /= "none" THEN t1.err
        ELSE IF read_neighbour(cat, after) /= "none" THEN read_neighbour(cat, after)
        ELSE "NotImplementedError"

BestLineFilter_filter_overlap(header, scanlines) ==
    /\ \E before, after \in 0..Len(catalogue) :
          ret' = [op |-> "BestLineFilter.filter_overlap", head |-> header,
                  kind |-> best_lines(catalogue, scanlines, before, after),
                  recs |-> <<>>, via |-> "None", fresh |-> FALSE]
    /\ UNCHANGED <<catalogue, fs, lock, granules_firstline_file, firstline_db,
                   tmpdir, run, hist>>

----------------------------------------------------------------------------
(* MEDMAD.filter_outliers.                                                   *)
(*                                                                           *)
(* The input C is [ndim, ma, data, mask]: ma says whether C is a             *)
(* numpy.ma.MaskedArray (mask[i] marks a missing entry) or a plain ndarray   *)
(* (mask all FALSE); data holds the entries in C order.  With ndim 3 the     *)
(* array has shape (n, 1, 1): one series along the reshaped axis 0.  The     *)
(* values are small integers, so medians are halves and float arithmetic is  *)
(* exact: Median2 is twice the median.                                       *)

RECURSIVE Insert(_, _)
Insert(x, s) ==
    IF Len(s) = 0 THEN <<x>>
    ELSE IF x <= Head(s) THEN <<x>> \o s
    ELSE <<Head(s)>> \o Insert(x, Tail(s))

RECURSIVE Sorted(_)
Sorted(s) == IF Len(s) = 0 THEN <<>> ELSE Insert(Head(s), Sorted(Tail(s)))

\* Twice numpy.median of a non-empty sequence: the middle element, or the
\* mean of the two middle elements
Median2(s) ==
    LET t == Sorted(s)
        n == Len(t)
    IN  IF n % 2 = 1 THEN 2 * t[(n + 1) \div 2] ELSE t[n \div 2] + t[n \div 2 + 1]

Abs(x) == IF x < 0 THEN 0 - x ELSE x

\* The entries numpy.ma.median takes into account
Valid(C) == Masked(C.data, [i \in DOMAIN C.mask |-> ~C.mask[i]])

\* Lines 47-55: med and mad, as [masked, med2, mad4]: twice the median and
\* four times the median absolute deviation; masked when no entry is valid
med_mad(C) ==
    IF Len(Valid(C)) = 0 THEN [masked |-> TRUE, med2 |-> 0, mad4 |-> 0]
    ELSE LET med2 == Median2(Valid(C))
             dev2 == [i \in DOMAIN Valid(C) |-> Abs(2 * Valid(C)[i] - med2)]
         IN  [masked |-> FALSE, med2 |-> med2, mad4 |-> Median2(dev2)]

\* med and mad are numpy.ma masked arrays, and so is (C - med)/mad, when C is
\* one or when the medians were taken along an axis (numpy.ma.median on a
\* plain array gives a plain scalar only without an axis)
ma_arithmetic(C) == C.ma \/ C.ndim = 3

\* Line 59-60: abs((C - med)/mad) at entry i, as [kind, num, den].  Plain
\* floats: x/0 is infinite, 0/0 is nan.  numpy.ma: a division by zero gives a
\* masked entry, as does a masked operand.
fracdev(C, i) ==
    LET m == med_mad(C)
        dev2 == Abs(2 * C.data[i] - m.med2)
    IN  IF C.mask[i] \/ m.masked THEN [kind |-> "masked", num |-> 0, den |-> 1]
        ELSE IF m.mad4 = 0
             THEN IF ma_arithmetic(C) THEN [kind |-> "masked", num |-> 0, den |-> 1]
                  ELSE IF dev2 = 0 THEN [kind |-> "nan", num |-> 0, den |-> 0]
                  ELSE [kind |-> "inf", num |-> 1, den |-> 0]
        ELSE [kind |-> "finite", num |-> 2 * dev2, den |-> m.mad4]

\* Line 60: abs(fracdev) > cutoff for a finite cutoff: a comparison with nan
\* is False, a masked entry stays masked
exceeds(f, cutoff) ==
    IF f.kind = "masked" THEN "masked"
    ELSE IF f.kind = "nan" THEN "False"
    ELSE IF f.kind = "inf" THEN "True"
    ELSE IF f.num > cutoff * f.den THEN "True" ELSE "False"

\* The call filter_outliers(C) on MEDMAD(cutoff), before it has run
Called(cutoff, C) ==
    [op |-> "filter_outliers", C |-> C, cutoff |-> cutoff, kind |-> "called",
     mask |-> <<>>]

MEDMAD_filter_outliers(cutoff, C) ==
    /\ ret = Called(cutoff, C)
    /\ ret' = IF C.ndim > 3
              THEN [ret EXCEPT !.kind = "ValueError"]
              ELSE [ret EXCEPT !.kind = "return",
                               !.mask = [i \in DOMAIN C.data |->
                                           exceeds(fracdev(C, i), cutoff)]]
    /\ UNCHANGED <<catalogue, fs, lock, granules_firstline_file, firstline_db,
                   tmpdir, run, hist>>

----------------------------------------------------------------------------
(* The states the operations start from. *)

\* Record arrays of 1..maxrecs scanlines, hrs_scnlin non-decreasing
Records(scns, times) == [hrs_scnlin : scns, time : times]
LinesOfLen(n, scns, times) ==
    {l \in [1..n -> Records(scns, times)] :
        \A i \in 1..(n - 1) : l[i].hrs_scnlin <= l[i + 1].hrs_scnlin}
Lines(maxrecs, scns, times) ==
    UNION {LinesOfLen(n, scns, times) : n \in 1..maxrecs}

\* Catalogues of n granules: the granule at position i has header i and is
\* either readable with one of the lines or unreadable
Granules(i, lines) ==
    {[ok |-> TRUE, head |-> i, line |-> l] : l \in lines}
        \cup {[ok |-> FALSE, head |-> i, line |-> <<>>]}
Catalogues(n, lines) ==
    {c \in [1..n -> UNION {Granules(i, lines) : i \in 1..n}] :
        \A i \in 1..n : c[i].head = i}

\* Index files holding at most maxpre entries, each the str of a firstline
Dbs(labels, values, maxpre) ==
    UNION {[K -> {str(v) : v \in values}] :
             K \in {S \in SUBSET labels : Cardinality(S) <= maxpre}}
Files(labels, values, maxpre) ==
    {NoFile} \cup {[exists |-> TRUE, db |-> d] : d \in Dbs(labels, values, maxpre)}

NoHist == [copies |-> 0, runs |-> 0,
           wrote |-> [path \in {"orig", "tmp"} |-> {}],
           last |-> [path \in {"orig", "tmp"} |->
                       [done |-> FALSE, overwrite |-> FALSE, granules |-> <<>>]]]

InitObjects ==
    /\ lock = "free"
    /\ granules_firstline_file = "orig"
    /\ firstline_db = "None"
    /\ tmpdir = FALSE
    /\ run = [p \in Procs |-> IdleRun]
    /\ ret = NoRet
    /\ hist = NoHist

Init ==
    /\ catalogue \in Catalogues(NumGranules, Lines(MaxRecs, 1..MaxScn, 1..MaxTime))
    /\ \E f \in Files(1..NumGranules, {0}, MaxPre) :
          fs = [path \in {"orig", "tmp"} |-> IF path = "orig" THEN f ELSE NoFile]
    /\ InitObjects

\* ds.read(..., filter_firstline=True) hands a granule it read to filter_overlap
ReadFiltered ==
    \E i \in 1..Len(catalogue) :
        /\ catalogue[i].ok
        /\ filter_overlap(catalogue[i].head, catalogue[i].line)

Update(p, maxruns) ==
    \/ /\ hist.runs < maxruns
       /\ \E overwrite \in BOOLEAN : update_firstline_db_open(p, overwrite)
    \/ update_firstline_db_granule(p)
    \/ update_firstline_db_close(p)

\* The builder alone: one run over a catalogue of NumGranules granules
Next == Update("R", MaxRuns)

Spec == Init /\ [][Next]_vars

\* A build and reads through the filter, in any order
InitRead ==
    /\ catalogue \in Catalogues(ReadGranules, Lines(ReadRecs, 0..ReadScn, 1..ReadTime))
    /\ \E f \in Files(1..ReadGranules, 0..(ReadScn + 1), ReadPre) :
          fs = [path \in {"orig", "tmp"} |-> IF path = "orig" THEN f ELSE NoFile]
    /\ InitObjects

NextRead ==
    \/ ReadFiltered
    \/ Update("R", MaxRuns)

SpecRead == InitRead /\ [][NextRead]_vars

\* Two processes on one index: R reads through the filter and builds, W is
\* another process building the same index
InitLock ==
    /\ catalogue \in Catalogues(LockGranules, Lines(LockRecs, 1..LockScn, 1..LockTime))
    /\ \E f \in Files(1..LockGranules, {0}, LockPre) :
          fs = [path \in {"orig", "tmp"} |-> IF path = "orig" THEN f ELSE NoFile]
    /\ InitObjects

NextLock ==
    \/ ReadFiltered
    \/ Update("R", LockRuns)
    \/ Update("W", LockRuns)

SpecLock == InitLock /\ [][NextLock]_vars

\* filter_overlap alone: one granule, any stored firstline, any record numbers
InitFilter ==
    /\ catalogue \in {c \in Catalogues(1, Lines(FilterRecs, 0..FilterScn, {1})) : c[1].ok}
    /\ \E f \in 0..FilterFirst :
          fs = [path \in {"orig", "tmp"} |->
                  IF path = "orig"
                  THEN [exists |-> TRUE, db |-> DbPut(EmptyDb, 1, str(f))]
                  ELSE NoFile]
    /\ InitObjects

NextFilter == ReadFiltered

SpecFilter == InitFilter /\ [][NextFilter]_vars

\* BestLineFilter.filter_overlap alone, on any record array, the empty one
\* included
InitBest ==
    /\ catalogue \in Catalogues(BestGranules, Lines(BestRecs, {1}, 1..BestTime))
    /\ fs = [path \in {"orig", "tmp"} |-> NoFile]
    /\ InitObjects

NextBest ==
    \E header \in 1..Len(catalogue) :
        \E scanlines \in {<<>>} \cup Lines(BestRecs, {1}, 1..BestTime) :
            BestLineFilter_filter_overlap(header, scanlines)

SpecBest == InitBest /\ [][NextBest]_vars

\* MEDMAD.filter_outliers alone: plain and masked arrays of OutlierLen
\* entries at most
Arrays ==
    UNION {[ndim : {1, 3, 4}, ma : BOOLEAN, data : [1..n -> 0..OutlierVal],
            mask : [1..n -> BOOLEAN]] : n \in 1..OutlierLen}
Inputs == {C \in Arrays : ~C.ma => \A i \in DOMAIN C.mask : ~C.mask[i]}

InitOutlier ==
    /\ catalogue = <<>>
    /\ fs = [path \in {"orig", "tmp"} |-> NoFile]
    /\ lock = "free"
    /\ granules_firstline_file = "orig"
    /\ firstline_db = "None"
    /\ tmpdir = FALSE
    /\ run = [p \in Procs |-> IdleRun]
    /\ hist = NoHist
    /\ \E cutoff \in 0..OutlierCutoff : \E C \in Inputs : ret = Called(cutoff, C)

NextOutlier == MEDMAD_filter_outliers(ret.cutoff, ret.C)

SpecOutlier == InitOutlier /\ [][NextOutlier]_vars

\* The builder on a dataset that yields the catalogue in any order
Orders(n) == {o \in [1..n -> 1..n] : \A i, j \in 1..n : o[i] = o[j] => i = j}

InitOrder ==
    /\ catalogue \in Catalogues(OrderGranules, Lines(OrderRecs, 1..OrderScn, 1..OrderTime))
    /\ \E f \in Files(1..OrderGranules, {0}, OrderPre) :
          fs = [path \in {"orig", "tmp"} |-> IF path = "orig" THEN f ELSE NoFile]
    /\ InitObjects

NextOrder ==
    \/ /\ hist.runs < OrderRuns
       /\ \E overwrite \in BOOLEAN : \E stream \in Orders(Len(catalogue)) :
             update_firstline_db_unsorted("R", overwrite, stream)
    \/ update_firstline_db_granule("R")
    \/ update_firstline_db_close("R")

SpecOrder == InitOrder /\ [][NextOrder]_vars

\* Runs with overwrite=false over periods of one catalogue, any of which may
\* be killed, on an index that is empty or absent at first
InitWindow ==
    /\ catalogue \in Catalogues(WindowGranules,
                               Lines(WindowRecs, 1..WindowScn, 1..WindowTime))
    /\ \E f \in Files({}, {0}, 0) :
          fs = [path \in {"orig", "tmp"} |-> IF path = "orig" THEN f ELSE NoFile]
    /\ InitObjects

NextWindow ==
    \/ /\ hist.runs < WindowRuns
       /\ \E start_date \in 1..Len(catalogue) : \E end_date \in start_date..Len(catalogue) :
             update_firstline_db_window("R", FALSE, start_date, end_date)
    \/ update_firstline_db_granule("R")
    \/ update_firstline_db_close("R")
    \/ update_firstline_db_killed("R")

SpecWindow == InitWindow /\ [][NextWindow]_vars

----------------------------------------------------------------------------
(* What the claims speak of, read off the catalogue and the run's stream. *)

\* Position in the stream of the granule read successfully just before
\* position k, 0 when there is none
PredPos(granules, k) ==
    LET S == {j \in 1..(k - 1) : catalogue[granules[j]].ok}
    IN  IF S = {} THEN 0 ELSE MaxOf(S)

TimesOf(g) == {g.line[i].time : i \in DOMAIN g.line}
ScnlinsOf(g) == {g.line[i].hrs_scnlin : i \in DOMAIN g.line}

\* The record-numbers of g's records newer than everything in granule a
NewerScnlins(g, a) ==
    {g.line[i].hrs_scnlin : i \in {j \in DOMAIN g.line : g.line[j].time > MaxOf(TimesOf(a))}}

\* The positions a run has passed whose granule was read, is not the first
\* one read, and whose label the run wrote
WrittenPos(r) ==
    {k \in 1..(r.pos - 1) :
        /\ catalogue[r.granules[k]].ok
        /\ PredPos(r.granules, k) /= 0
        /\ catalogue[r.granules[k]].head \in r.wrote}

Running(p) == run[p].pc = "loop"

----------------------------------------------------------------------------
(* C1: in a run of update_firstline_db, for every granule read that is not   *)
(* the first one read and whose label this run wrote, when its latest        *)
(* timestamp is later than the latest timestamp of the granule read just     *)
(* before it, the stored value is the smallest hrs_scnlin among its records  *)
(* later than that timestamp.                                                *)
C1_FirstNewer ==
    \A p \in Procs :
        Running(p) =>
            \A k \in WrittenPos(run[p]) :
                LET r == run[p]
                    g == catalogue[r.granules[k]]
                    a == catalogue[r.granules[PredPos(r.granules, k)]]
                IN  MaxOf(TimesOf(g)) > MaxOf(TimesOf(a)) =>
                        /\ g.head \in DOMAIN fs[r.gfd].db
                        /\ int(fs[r.gfd].db[g.head]) = MinOf(NewerScnlins(g, a))

\* The third granule was written against a second granule that was skipped
\* as already present and whose timestamps are out of order; two of its
\* records are newer
C1_Witness ==
    /\ Running("R")
    /\ 3 \in WrittenPos(run["R"])
    /\ PredPos(run["R"].granules, 3) = 2
    /\ 2 \notin run["R"].wrote
    /\ 2 \in DOMAIN run["R"].start.db
    /\ catalogue[1].ok
    /\ Len(catalogue[2].line) = 2
    /\ catalogue[2].line[1].time > catalogue[2].line[2].time
    /\ Cardinality(NewerScnlins(catalogue[3], catalogue[2])) = 2

----------------------------------------------------------------------------
(* A filter_overlap call that returned, and the run that wrote its entry. *)

Filtered == ret.op = "filter_overlap"

\* The value the handle of the last call holds for the call's label
StoredFirstline == int(fs[ret.via].db[get_dataname(ret.head)])

\* The last call was for a granule whose entry the completed run over the
\* whole catalogue wrote; its predecessor in that run is LastPred
FilteredWritten ==
    /\ Filtered
    /\ ret.via /= "None"
    /\ hist.last[ret.via].done
    /\ ret.head \in hist.wrote[ret.via]
    /\ PredPos(hist.last[ret.via].granules, ret.head) /= 0

LastPred == catalogue[PredPos(hist.last[ret.via].granules, ret.head)]

----------------------------------------------------------------------------
----------------------------------------------------------------------------
(* C3: filter_overlap returns no record when the stored firstline is larger  *)
(* than the largest hrs_scnlin, and otherwise exactly the records whose      *)
(* hrs_scnlin is larger than the firstline, in order.                        *)
C3_TrimByScnlin ==
    (Filtered /\ ret.via /= "None" /\ get_dataname(ret.head) \in DOMAIN fs[ret.via].db) =>
        LET g == catalogue[ret.head]
            f == StoredFirstline
        IN  /\ ret.kind = "return"
            /\ ret.recs = IF f > MaxOf(ScnlinsOf(g))
                          THEN <<>>
                          ELSE SelectSeq(g.line, LAMBDA x : x.hrs_scnlin > f)

----------------------------------------------------------------------------
(* C4: for a granule written by update_firstline_db against its predecessor, *)
(* timestamps in order and record numbers strictly increasing in both,       *)
(* filter_overlap returns exactly the records later than the predecessor's   *)
(* latest timestamp.                                                         *)
Monotonic(g) ==
    \A i \in 1..(Len(g.line) - 1) :
        /\ g.line[i].time <= g.line[i + 1].time
        /\ g.line[i].hrs_scnlin < g.line[i + 1].hrs_scnlin

C4_ExactlyNewer ==
    (FilteredWritten /\ Monotonic(catalogue[ret.head]) /\ Monotonic(LastPred)) =>
        /\ ret.kind = "return"
        /\ ret.recs = SelectSeq(catalogue[ret.head].line,
                                LAMBDA x : x.time > MaxOf(TimesOf(LastPred)))

----------------------------------------------------------------------------
(* C9: filter_overlap for a label with no entry fails and returns no record: *)
(* with KeyError when an index file is open, with FileNotFoundError when     *)
(* there is no index file to open or copy.  It never answers as if the       *)
(* firstline were 0.                                                         *)
C9_MissingKeyFails ==
    Filtered =>
        /\ (ret.via /= "None" /\ get_dataname(ret.head) \notin DOMAIN fs[ret.via].db) =>
              (ret.kind = "KeyError" /\ ret.recs = <<>>)
        /\ ret.via = "None" =>
              (ret.kind = "FileNotFoundError" /\ ret.recs = <<>>
                 /\ ~fs[granules_firstline_file].exists)

\* After a run that wrote the second granule, the first granule of the run
\* has no entry, and filter_overlap failed on it
C9_Witness ==
    /\ Filtered
    /\ ret.via = "orig"
    /\ hist.last["orig"].done
    /\ ret.head = 1
    /\ hist.wrote["orig"] = {2}
    /\ ret.kind = "KeyError"

----------------------------------------------------------------------------
(* C10: at the end of a run with overwrite=true every granule read, except   *)
(* the first one read, has the entry computed against the granule read just  *)
(* before it, whatever the index held before.                                *)
Boundary(g, a) ==
    IF NewerScnlins(g, a) /= {} THEN MinOf(NewerScnlins(g, a))
    ELSE MaxOf(ScnlinsOf(g)) + 1

AtEnd(p) == Running(p) /\ run[p].pos > Len(run[p].granules)

C10_Overwrite ==
    \A p \in Procs :
        (AtEnd(p) /\ run[p].overwrite) =>
            \A k \in 1..Len(run[p].granules) :
                LET r == run[p]
                    g == catalogue[r.granules[k]]
                    j == PredPos(r.granules, k)
                IN  (g.ok /\ j /= 0) =>
                        /\ g.head \in DOMAIN fs[r.gfd].db
                        /\ int(fs[r.gfd].db[g.head]) = Boundary(g, catalogue[r.granules[j]])

\* The run replaced an entry that was there before it started
C10_Witness ==
    /\ AtEnd("R")
    /\ run["R"].overwrite
    /\ \E l \in DOMAIN run["R"].start.db :
          /\ l \in run["R"].wrote
          /\ fs[run["R"].gfd].db[l] /= run["R"].start.db[l]

----------------------------------------------------------------------------
(* C5: a run with overwrite=false that follows a completed run with          *)
(* overwrite=false over the same granules, on the same index, updates        *)
(* nothing: its updated-count is 0 and the index is as it was at its start.  *)
SecondRun(p) ==
    /\ AtEnd(p)
    /\ ~run[p].overwrite
    /\ hist.last[run[p].gfd].done
    /\ ~hist.last[run[p].gfd].overwrite
    /\ hist.last[run[p].gfd].granules = run[p].granules

C5_Idempotent ==
    \A p \in Procs :
        SecondRun(p) =>
            /\ run[p].count_updated = 0
            /\ fs[run[p].gfd] = run[p].start

\* The second run passed three granules read, two of them written by a run
\* before it
C5_Witness ==
    /\ SecondRun("R")
    /\ run["R"].count_all = 3
    /\ hist.wrote[run["R"].gfd] = {2, 3}

----------------------------------------------------------------------------
(* C6: no step removes an index file or an entry of it, and the value of an  *)
(* entry changes only while a run with overwrite=true has that index open.   *)
Paths == {"orig", "tmp"}

C6_Step ==
    \A path \in Paths :
        /\ fs[path].exists => fs'[path].exists
        /\ \A l \in DOMAIN fs[path].db :
              /\ l \in DOMAIN fs'[path].db
              /\ fs'[path].db[l] /= fs[path].db[l] =>
                    \E p \in Procs :
                        Running(p) /\ run[p].overwrite /\ run[p].gfd = path

C6_EntriesStay == [][C6_Step]_vars

\* A run with overwrite=true changed an entry that was there at its start,
\* after filter_overlap had read the index
C6_Witness ==
    /\ firstline_db = "orig"
    /\ \E p \in Procs :
          /\ Running(p)
          /\ run[p].overwrite
          /\ \E l \in DOMAIN run[p].start.db :
                fs[run[p].gfd].db[l] /= run[p].start.db[l]

----------------------------------------------------------------------------
(* Steps of filter_overlap, and the outcome a lookup in given contents has. *)

\* The step is a filter_overlap call of R (one that changes anything)
FilterStep ==
    /\ run' = run
    /\ ret'.op = "filter_overlap"
    /\ <<ret, firstline_db, tmpdir>>' /= <<ret, firstline_db, tmpdir>>

\* r is the outcome of looking r.head up in db and trimming its granule
OutcomeFrom(r, db) ==
    LET lab == get_dataname(r.head)
        line == catalogue[r.head].line
    IN  IF lab \notin DOMAIN db
        THEN r.kind = "KeyError" /\ r.recs = <<>>
        ELSE /\ r.kind = "return"
             /\ r.recs = IF int(db[lab]) > Len(line) THEN <<>>
                         ELSE SelectSeq(line, LAMBDA x : x.hrs_scnlin > int(db[lab]))

----------------------------------------------------------------------------
(* C7: a filter_overlap call that has to open the index while the other      *)
(* process holds it open for writing does not fail with the lock error: it   *)
(* copies the file, opens the copy, leaves the original as it is, and its    *)
(* outcome is that of a lookup in the copied contents.  Every entry of the   *)
(* copy is an entry the original holds or held when the writer opened it.    *)
CopyOf(copy, orig, start) ==
    /\ copy.exists
    /\ DOMAIN start.db \subseteq DOMAIN copy.db
    /\ DOMAIN copy.db \subseteq DOMAIN orig.db
    /\ \A k \in DOMAIN copy.db :
          \/ copy.db[k] = orig.db[k]
          \/ k \in DOMAIN start.db /\ copy.db[k] = start.db[k]

C7_Step ==
    (FilterStep /\ firstline_db = "None" /\ lock = "W") =>
        /\ firstline_db' = "tmp"
        /\ granules_firstline_file' = "tmp"
        /\ tmpdir'
        /\ CopyOf(fs'["tmp"], fs["orig"], run["W"].start)
        /\ fs'["orig"] = fs["orig"]
        /\ ret'.via = "tmp"
        /\ OutcomeFrom(ret', fs'["tmp"].db)

C7_LockFallback == [][C7_Step]_vars

\* The call found, in the copy made while W was in the middle of a run, an
\* entry that W has written
C7_Witness ==
    /\ Filtered
    /\ ret.fresh
    /\ ret.kind = "return"
    /\ lock = "W"
    /\ get_dataname(ret.head) \in run["W"].wrote
    /\ hist.copies = 1

----------------------------------------------------------------------------
(* C8: the copy is made at most once; once R reads from the copy it goes on  *)
(* reading from it, steps of the writer and calls of filter_overlap leave    *)
(* the copy as it is, every call answers from the copy, and a call for the   *)
(* label of the call before it has the same outcome.                         *)
C8_Step ==
    firstline_db = "tmp" =>
        /\ firstline_db' = "tmp"
        /\ hist'.copies = hist.copies
        /\ run'["R"] = run["R"] => fs'["tmp"] = fs["tmp"]
        /\ FilterStep =>
              /\ ret'.via = "tmp"
              /\ OutcomeFrom(ret', fs["tmp"].db)
              /\ (ret.op = "filter_overlap" /\ ret.via = "tmp" /\ ret'.head = ret.head) =>
                    (ret'.kind = ret.kind /\ ret'.recs = ret.recs)

C8_DegradedConsistent == [](hist.copies <= 1) /\ [][C8_Step]_vars

\* R answered from the copy although the original by now holds another
\* value for the label
C8_Witness ==
    /\ Filtered
    /\ ret.via = "tmp"
    /\ ~ret.fresh
    /\ get_dataname(ret.head) \in DOMAIN fs["tmp"].db
    /\ get_dataname(ret.head) \in DOMAIN fs["orig"].db
    /\ fs["tmp"].db[get_dataname(ret.head)] /= fs["orig"].db[get_dataname(ret.head)]

----------------------------------------------------------------------------
(* C11: every call of BestLineFilter.filter_overlap fails with               *)
(* NotImplementedError, whatever the records (an empty array included) and   *)
(* whatever the reads of the neighbouring granules give; it returns no       *)
(* record.                                                                   *)
BestCalled == ret.op = "BestLineFilter.filter_overlap"

C11_AlwaysNotImplemented ==
    BestCalled => (ret.kind = "NotImplementedError" /\ ret.recs = <<>>)

----------------------------------------------------------------------------
(* C12: when the MAD of the series is zero, filter_outliers flags an entry   *)
(* (True) if the entry differs from the median and does not flag it (False)  *)
(* if it equals the median; for a series of equal values the mask is False   *)
(* everywhere.                                                               *)
OutliersReturned == ret.op = "filter_outliers" /\ ret.kind = "return"

ZeroMAD(C) == ~med_mad(C).masked /\ med_mad(C).mad4 = 0

C12_ZeroMadByMedian ==
    (OutliersReturned /\ ZeroMAD(ret.C)) =>
        \A i \in DOMAIN ret.C.data :
            ~ret.C.mask[i] =>
                ret.mask[i] = IF 2 * ret.C.data[i] /= med_mad(ret.C).med2
                              THEN "True" ELSE "False"

----------------------------------------------------------------------------
(* C13: when the granules are visited in ascending order of start time, every *)
(* firstline a run writes is the boundary of its granule against the granule  *)
(* read successfully just before it in time; a stream visited out of order    *)
(* can have a written firstline that differs from that boundary (C13_Witness).*)
Ascending(stream) == \A i, j \in DOMAIN stream : i < j => stream[i] < stream[j]

\* The catalogue position of the granule readable and latest before position
\* g (the catalogue is in ascending order of start time), 0 when there is none
ChronPred(g) ==
    LET S == {j \in 1..(g - 1) : catalogue[j].ok}
    IN  IF S = {} THEN 0 ELSE MaxOf(S)

\* The entry of the granule at position k of r's stream is its boundary
\* against its predecessor in time
ChronBoundaryAt(r, k) ==
    LET g == r.granules[k]
    IN  /\ ChronPred(g) /= 0
        /\ get_dataname(catalogue[g].head) \in DOMAIN fs[r.gfd].db
        /\ int(fs[r.gfd].db[get_dataname(catalogue[g].head)])
             = Boundary(catalogue[g], catalogue[ChronPred(g)])

C13_AscendingGivesBoundary ==
    \A p \in Procs :
        (Running(p) /\ Ascending(run[p].granules)) =>
            \A k \in WrittenPos(run[p]) : ChronBoundaryAt(run[p], k)

\* A run over a stream out of order wrote, for a granule that has a
\* predecessor in time, a firstline that is not its boundary against it
C13_Witness ==
    /\ Running("R")
    /\ ~Ascending(run["R"].granules)
    /\ \E k \in WrittenPos(run["R"]) :
          /\ ChronPred(run["R"].granules[k]) /= 0
          /\ ~ChronBoundaryAt(run["R"], k)

----------------------------------------------------------------------------
(* C14: in a run, the pass over the first granule read successfully writes   *)
(* nothing to any index, whatever overwrite is and whether or not the label  *)
(* has an entry, and leaves the run with a previous granule; from then on    *)
(* the run always has a previous granule, and the entry of that first        *)
(* granule stays, to the end of the run, as the run found it.                *)
NoPrevious(r) == r.prev_line = None

\* The step is a pass of p's loop over a granule that was read
ReadStep(p) ==
    /\ Running(p)
    /\ run'[p].pc = "loop"
    /\ run'[p].pos = run[p].pos + 1
    /\ catalogue[run[p].granules[run[p].pos]].ok

\* The positions of r's stream passed so far whose granule was read
ReadPos(r) == {k \in 1..(r.pos - 1) : catalogue[r.granules[k]].ok}

C14_Step ==
    \A p \in Procs :
        /\ (ReadStep(p) /\ NoPrevious(run[p])) =>
              /\ fs' = fs
              /\ run'[p].count_updated = run[p].count_updated
              /\ ~NoPrevious(run'[p])
        /\ (Running(p) /\ ~NoPrevious(run[p]) /\ run'[p].pc = "loop") =>
              ~NoPrevious(run'[p])

C14_FirstKept ==
    \A p \in Procs :
        (Running(p) /\ ReadPos(run[p]) /= {}) =>
            LET r == run[p]
                lab == get_dataname(catalogue[r.granules[MinOf(ReadPos(r))]].head)
            IN  /\ ~NoPrevious(r)
                /\ lab \notin r.wrote
                /\ lab \in DOMAIN fs[r.gfd].db <=> lab \in DOMAIN r.start.db
                /\ lab \in DOMAIN r.start.db => fs[r.gfd].db[lab] = r.start.db[lab]

C14_FirstNeverWritten == []C14_FirstKept /\ [][C14_Step]_vars

\* A run with overwrite=true is past its first granule read, which had an
\* entry, and has written a later granule
C14_Witness ==
    /\ Running("R")
    /\ run["R"].overwrite
    /\ ReadPos(run["R"]) /= {}
    /\ get_dataname(catalogue[run["R"].granules[MinOf(ReadPos(run["R"]))]].head)
         \in DOMAIN run["R"].start.db
    /\ run["R"].count_updated > 0

----------------------------------------------------------------------------
(* C15: a granule that cannot be read does not end the run: the pass over it *)
(* changes no index, no previous-granule state and no count, and the run     *)
(* goes on with the next granule; so at every point of a run the previous    *)
(* granule is the last one read successfully, failures in between or not.    *)
FailStep(p) ==
    /\ Running(p)
    /\ run[p].pos <= Len(run[p].granules)
    /\ ~catalogue[run[p].granules[run[p].pos]].ok
    /\ run'[p] /= run[p]

C15_Step ==
    \A p \in Procs :
        FailStep(p) =>
            /\ fs' = fs
            /\ run'[p].pc = "loop"
            /\ run'[p].pos = run[p].pos + 1
            /\ run'[p].prev_head = run[p].prev_head
            /\ run'[p].prev_line = run[p].prev_line
            /\ run'[p].prev_time = run[p].prev_time
            /\ run'[p].count_updated = run[p].count_updated
            /\ run'[p].count_all = run[p].count_all

C15_PrevIsLastRead ==
    \A p \in Procs :
        Running(p) =>
            LET r == run[p]
                j == PredPos(r.granules, r.pos)
            IN  /\ r.count_all = Cardinality(ReadPos(r))
                /\ IF j = 0 THEN r.prev_line = None /\ r.prev_head = None
                   ELSE /\ r.prev_line = Some(catalogue[r.granules[j]].line)
                        /\ r.prev_head = Some(catalogue[r.granules[j]].head)
                        /\ r.prev_time = Some(get_time(catalogue[r.granules[j]].line))

C15_ReadFailureSkipped == []C15_PrevIsLastRead /\ [][C15_Step]_vars

\* The second granule could not be read, and the run then wrote the third
\* against the first
C15_Witness ==
    /\ Running("R")
    /\ run["R"].pos = 4
    /\ catalogue[1].ok /\ ~catalogue[2].ok /\ catalogue[3].ok
    /\ 3 \in run["R"].wrote
    /\ run["R"].count_all = 2

----------------------------------------------------------------------------
----------------------------------------------------------------------------
(* C17: no call of filter_overlap changes the index file at the configured   *)
(* path: whether the call reads it directly or copies it, returns records or *)
(* none, or fails, the file is there or absent as before, with the same      *)
(* labels and values.                                                        *)
C17_Step == FilterStep => fs'["orig"] = fs["orig"]

C17_OriginalUntouched == [][C17_Step]_vars

\* The call copied the index while W was writing it and failed on a label
\* that the original holds but the copy does not
C17_Witness ==
    /\ Filtered
    /\ ret.fresh
    /\ ret.kind = "KeyError"
    /\ lock = "W"
    /\ get_dataname(ret.head) \in DOMAIN fs["orig"].db

----------------------------------------------------------------------------
(* C18: with runs of update_firstline_db, overwrite=false, over periods of   *)
(* one ascending catalogue, completed or killed at any point, every entry in *)
(* the index is at all times the entry one run over the whole catalogue      *)
(* writes: the boundary of its granule against the granule read successfully *)
(* just before it in the whole catalogue.                                    *)

\* The index one uninterrupted run over the whole catalogue leaves
FullRunIndex ==
    [g \in {k \in 1..Len(catalogue) : catalogue[k].ok /\ ChronPred(k) /= 0} |->
        str(Boundary(catalogue[g], catalogue[ChronPred(g)]))]

C18_Resumable ==
    \A lab \in DOMAIN fs["orig"].db :
        /\ lab \in DOMAIN FullRunIndex
        /\ fs["orig"].db[lab] = FullRunIndex[lab]

\* After a run that was killed, a run over a period that is not the whole
\* catalogue has come to its end; the index now holds all the entries of a
\* run over the whole catalogue, one of them from a run before
C18_Witness ==
    /\ AtEnd("R")
    /\ hist.runs >= 2
    /\ ~hist.last["orig"].done
    /\ Len(run["R"].granules) < Len(catalogue)
    /\ fs["orig"].db = FullRunIndex
    /\ Cardinality(DOMAIN FullRunIndex) = 3
    /\ run["R"].count_updated < 3

----------------------------------------------------------------------------
(* C19: every entry a run of update_firstline_db on object R has written is  *)
(* in the index file at the path R was constructed with, with the value the  *)
(* run wrote, also when a filter_overlap call on R fell back to a copy       *)
(* before the run.                                                           *)
C19_WritesReachOriginal ==
    Running("R") =>
        \A lab \in run["R"].wrote :
            /\ lab \in DOMAIN fs["orig"].db
            /\ fs["orig"].db[lab] = fs[run["R"].gfd].db[lab]

====
